---- MODULE Spec2Model ----
(***************************************************************************)
(* The interactive native shell server of                                  *)
(* test/uiautomator/uiautomator-shell/src/androidMain/cxx/main.c:          *)
(* argument parsing, the three listening sockets, the accept loop, fork,   *)
(* the child branch, and the SIGTERM/SIGINT and SIGCHLD handlers, over an  *)
(* explicit descriptor table with lowest-free-number allocation.           *)
(***************************************************************************)
EXTENDS Integers, Sequences, FiniteSets, TLC

VARIABLES
    pc,             \* position of the main flow
    argc,           \* argument count as main() sees it (program name included)
    argv,           \* argv[2..4]: the three port texts, as sequences of characters
    ulongLimbs,     \* width of unsigned long of the ABI, in 16-bit limbs (2 or 4)
    port,           \* stdinSocketPort, stdoutSocketPort, stderrSocketPort (-1: not set)
    curRole,        \* which of the three per-role calls the main flow is in
    csFd,           \* createSocket's local fd
    csRet,          \* createSocket's return value
    serverFd,       \* serverStdinFd, serverStdoutFd, serverStderrFd
    serverShutdown, \* the volatile sig_atomic_t flag
    fdt,            \* the server process's descriptor table
    clientFd,       \* clientStdinFd, clientStdoutFd, clientStderrFd
    installed,      \* signals whose handler sigaction has installed
    sigchldPending, \* SIGCHLD is pending for the server
    chldPc,         \* position inside handleSignalChildEnd ("idle": not running)
    children,       \* the processes fork created
    markerFile,     \* /data/local/tmp/process.pid exists
    stdoutLog,      \* number of pid lines written to standard output
    exitStatus,     \* exit status of the server (-1 while it has none)
    parseRet,       \* what the last parsePortArg call returned (-2: none yet)
    h               \* history of the run (what the properties talk about)

vars == <<pc, argc, argv, ulongLimbs, port, curRole, csFd, csRet, serverFd,
          serverShutdown, fdt, clientFd, installed, sigchldPending, chldPc,
          children, markerFile, stdoutLog, exitStatus, parseRet, h>>

----------------------------------------------------------------------------
(* Bounds of the model *)

\* longest port text drawn exhaustively from Alphabet
MaxArgLen == 3
\* largest descriptor number of a process
MaxFdNum == 9
\* connection triples the clients complete
MaxTriples == 2
\* termination signals the environment sends
MaxSignals == 2

----------------------------------------------------------------------------
(* Program constants *)

STDIN_FILENO == 0
STDOUT_FILENO == 1
STDERR_FILENO == 2
\* limb base of the unsigned long representation: 2^16, so UINT16_MAX = LimbBase - 1
LimbBase == 65536
UINT16_MAX == 65535

Roles == 1..3      \* 1: stdin, 2: stdout, 3: stderr
Fds == 0..MaxFdNum

----------------------------------------------------------------------------
(* strtoul(arg, &endptr, 10) on an unsigned long of n 16-bit limbs          *)
(* (little endian), and parsePortArg                                        *)

Digits == <<"0", "1", "2", "3", "4", "5", "6", "7", "8", "9">>

IsDigit(c) == \E d \in 1..10 : Digits[d] = c

DigitVal(c) == (CHOOSE d \in 1..10 : Digits[d] = c) - 1

IsSpace(c) == c = " "

UZero(n) == [i \in 1..n |-> 0]

\* acc * 10 + d over n limbs: the limbs and the carry out of the top limb
RECURSIVE UMulAddFrom(_, _, _, _)
UMulAddFrom(u, i, carry, n) ==
    IF i > n THEN [val |-> u, carry |-> carry]
    ELSE LET t == u[i] * 10 + carry
         IN  UMulAddFrom([u EXCEPT ![i] = t % LimbBase], i + 1, t \div LimbBase, n)

UMulAdd(u, d, n) == UMulAddFrom(u, 1, d, n)

\* -u in the unsigned type: (~u) + 1 modulo 2^(16 n)
RECURSIVE UNegFrom(_, _, _, _)
UNegFrom(u, i, carry, n) ==
    IF i > n THEN u
    ELSE LET t == (LimbBase - 1 - u[i]) + carry
         IN  UNegFrom([u EXCEPT ![i] = t % LimbBase], i + 1, t \div LimbBase, n)

UNeg(u, n) == UNegFrom(u, 1, 1, n)

UMax(n) == [i \in 1..n |-> LimbBase - 1]

\* parsed_port > UINT16_MAX
UGtUint16(u, n) == \E i \in 2..n : u[i] # 0

\* the digit loop: any = 1 once a digit was consumed, -1 after overflow
RECURSIVE ScanDigits(_, _, _, _, _)
ScanDigits(s, i, acc, any, n) ==
    IF i > Len(s) \/ ~IsDigit(s[i]) THEN [acc |-> acc, any |-> any, end |-> i]
    ELSE IF any < 0 THEN ScanDigits(s, i + 1, acc, any, n)
    ELSE LET r == UMulAdd(acc, DigitVal(s[i]), n)
         IN  IF r.carry # 0
             THEN ScanDigits(s, i + 1, UMax(n), -1, n)
             ELSE ScanDigits(s, i + 1, r.val, 1, n)

RECURSIVE SkipSpace(_, _)
SkipSpace(s, i) ==
    IF i <= Len(s) /\ IsSpace(s[i]) THEN SkipSpace(s, i + 1) ELSE i

\* val: the limbs returned; endptr: index of the character endptr points at
\* (Len(s) + 1 is the terminating NUL); erange: errno = ERANGE. When no digit
\* is converted the result is 0 with endptr = nptr, and Android's libc leaves
\* errno alone. A minus sign negates the result in the unsigned type.
strtoul(s, n) ==
    LET i0 == SkipSpace(s, 1)
        neg == i0 <= Len(s) /\ s[i0] = "-"
        sgn == i0 <= Len(s) /\ s[i0] \in {"-", "+"}
        i1 == IF sgn THEN i0 + 1 ELSE i0
        r == ScanDigits(s, i1, UZero(n), 0, n)
    IN  [val |-> IF neg /\ r.any > 0 THEN UNeg(r.acc, n) ELSE r.acc,
         endptr |-> IF r.any # 0 THEN r.end ELSE 1,
         erange |-> r.any < 0]

\* ret: the return value; port: what was stored in *port_out (-1: nothing)
parsePortArg(arg, n) ==
    LET r == strtoul(arg, n)
    IN  IF r.erange \/ r.endptr <= Len(arg) \/ UGtUint16(r.val, n)
        THEN [ret |-> -1, port |-> -1]
        ELSE [ret |-> 0, port |-> r.val[1]]

----------------------------------------------------------------------------
(* The descriptor table: a descriptor number names an open file or nothing *)

Closed == [kind |-> "closed", role |-> 0, id |-> 0]
\* what the process was started with on descriptors 0, 1, 2
StdStream(n) == [kind |-> "std", role |-> n, id |-> 0]
\* socket() returned it, listen() has not succeeded yet
Sock(r) == [kind |-> "sock", role |-> r, id |-> 0]
\* listening endpoint of role r
Listen(r) == [kind |-> "listen", role |-> r, id |-> 0]
\* connection accepted on the endpoint of role r, for triple k
Conn(r, k) == [kind |-> "conn", role |-> r, id |-> k]

IsOpen(t, fd) == fd \in Fds /\ t[fd] # Closed

IsListening(t, fd) == fd \in Fds /\ t[fd].kind = "listen"

\* the kernel hands out the lowest free number; -1: none is free (EMFILE)
LowestFree(t) ==
    IF \E fd \in Fds : t[fd] = Closed
    THEN CHOOSE fd \in Fds : t[fd] = Closed /\ \A g \in Fds : g < fd => t[g] # Closed
    ELSE -1

\* close(fd): EBADF on a number that names nothing changes nothing
CloseFd(t, fd) == IF IsOpen(t, fd) THEN [t EXCEPT ![fd] = Closed] ELSE t

RECURSIVE CloseAll(_, _)
CloseAll(t, fdseq) ==
    IF fdseq = <<>> THEN t ELSE CloseAll(CloseFd(t, Head(fdseq)), Tail(fdseq))

\* dup2(old, new): -1 when old is not open; old = new changes nothing
Dup2(t, old, new) ==
    IF ~IsOpen(t, old) THEN [ok |-> FALSE, t |-> t]
    ELSE [ok |-> TRUE, t |-> [t EXCEPT ![new] = t[old]]]

\* the open files among the descriptors of fdseq
OpenAmong(t, fdseq) ==
    {[fd |-> fdseq[i], file |-> t[fdseq[i]]] : i \in {j \in DOMAIN fdseq : IsOpen(t, fdseq[j])}}

----------------------------------------------------------------------------
(* Initial state: the process as exec started it *)

\* fdt: the descriptor table of the child (of the shell, once it is one);
\* atExec: the table with which the child called execl
NoChild == [st |-> "none", fdt |-> [fd \in Fds |-> Closed],
            atExec |-> [fd \in Fds |-> Closed], triple |-> 0,
            status |-> -1, sfd |-> <<0, 0, 0>>, cfd |-> <<-1, -1, -1>>]

\* the command lines of the runs explored: a good one, one bad port per
\* position, too few and too many arguments
ArgVectors ==
    { [argc |-> 5, argv |-> << <<"8","0","8","0">>, <<"8","0","8","1">>, <<"8","0","8","2">> >>],
      [argc |-> 5, argv |-> << <<"1","2","a">>, <<"8","0","8","1">>, <<"8","0","8","2">> >>],
      [argc |-> 5, argv |-> << <<"8","0","8","0">>, <<"-","1">>, <<"8","0","8","2">> >>],
      [argc |-> 5, argv |-> << <<"8","0","8","0">>, <<"8","0","8","1">>, <<"7","0","0","0","0">> >>],
      [argc |-> 4, argv |-> << <<"8","0","8","0">>, <<"8","0","8","1">> >>],
      [argc |-> 6, argv |-> << <<"8","0","8","0">>, <<"8","0","8","1">>, <<"8","0","8","2">>, <<"1">> >>] }

InitHistory ==
    [triples |-> 0,          \* complete connection triples accepted
     forkFails |-> 0,        \* fork() calls that returned -1
     sigs |-> 0,             \* termination signals delivered
     shutCalls |-> 0,        \* invocations of shutdownServerSockets
     laterReleased |-> {},   \* what invocations after the first released
     stdClosed |-> FALSE,    \* the shutdown path closed a descriptor it never created
     sockets |-> {},         \* roles for which socket() has succeeded
     cause |-> "none",       \* why the server exited
     iter |-> <<>>,          \* roles accepted in the current loop iteration
     accepted |-> FALSE,     \* accept() has been called
     annReady |-> <<>>,      \* per pid line written: were all three endpoints listening
     annAccepts |-> <<>>,    \* per pid line written: had accept() been called before it
     sigAt |-> {},           \* phases of the main flow in which a termination signal arrived
     coalesced |-> FALSE]    \* a child ended while a SIGCHLD was pending or its handler running

\* the standard descriptors of StdFds that the caller left open
StdFds == {STDIN_FILENO, STDOUT_FILENO, STDERR_FILENO}

StartFdt(open) == [fd \in Fds |-> IF fd \in open THEN StdStream(fd) ELSE Closed]

InitCommon ==
    /\ port = <<-1, -1, -1>>
    /\ curRole = 1
    /\ csFd = -1
    /\ csRet = -1
    /\ serverFd = <<0, 0, 0>>
    /\ serverShutdown = 0
    /\ clientFd = <<-1, -1, -1>>
    /\ installed = {}
    /\ sigchldPending = FALSE
    /\ chldPc = "idle"
    /\ children = [c \in 1..MaxTriples |-> NoChild]
    /\ markerFile = FALSE
    /\ stdoutLog = 0
    /\ exitStatus = -1
    /\ parseRet = -2
    /\ h = InitHistory

Init ==
    /\ pc = "start"
    /\ \E a \in ArgVectors : argc = a.argc /\ argv = a.argv
    /\ ulongLimbs \in {2, 4}
    /\ fdt = StartFdt(StdFds)
    /\ InitCommon

----------------------------------------------------------------------------
(* The main flow *)

ServerAlive == pc \notin {"exited", "killed", "parsed"}

\* the main flow runs unless a SIGCHLD handler has preempted it
MainRunnable == ServerAlive /\ chldPc = "idle"

argsV == <<argc, argv, ulongLimbs>>
sigV == <<installed, sigchldPending, chldPc>>
sockV == <<csFd, csRet, serverFd, fdt>>
outV == <<markerFile, stdoutLog, parseRet>>

\* return status from main, or exit(status)
Exit(status, cause, hh) ==
    /\ pc' = "exited"
    /\ exitStatus' = status
    /\ h' = [hh EXCEPT !.cause = cause]

\* CheckArgc with the test written argc < 5
CheckArgcAtLeast ==
    /\ pc = "start" /\ MainRunnable
    /\ IF argc < 5
       THEN Exit(1, "argc", h)
       ELSE pc' = "setup_chld" /\ UNCHANGED <<exitStatus, h>>
    /\ UNCHANGED <<argsV, port, curRole, sockV, serverShutdown, clientFd, sigV,
                   children, outV>>

\* main.c 264-269
CheckArgc ==
    /\ pc = "start" /\ MainRunnable
    /\ IF argc # 5
       THEN Exit(1, "argc", h)
       ELSE pc' = "setup_chld" /\ UNCHANGED <<exitStatus, h>>
    /\ UNCHANGED <<argsV, port, curRole, sockV, serverShutdown, clientFd, sigV,
                   children, outV>>

\* setupSignalHandlerChildEnd: sigaction(SIGCHLD), exit(1) when it fails
SetupSignalHandlerChildEnd ==
    /\ pc = "setup_chld" /\ MainRunnable
    /\ \/ /\ installed' = installed \cup {"SIGCHLD"}
          /\ pc' = "setup_term"
          /\ UNCHANGED <<exitStatus, h>>
       \/ /\ Exit(1, "sigaction", h)
          /\ UNCHANGED installed
    /\ UNCHANGED <<argsV, port, curRole, sockV, serverShutdown, clientFd,
                   sigchldPending, chldPc, children, outV>>

\* setupSignalHandlerShutdown: sigaction(SIGTERM) then sigaction(SIGINT)
SetupSignalHandlerShutdown ==
    /\ pc \in {"setup_term", "setup_int"} /\ MainRunnable
    /\ \/ /\ installed' = installed \cup {IF pc = "setup_term" THEN "SIGTERM" ELSE "SIGINT"}
          /\ pc' = IF pc = "setup_term" THEN "setup_int" ELSE "parse"
          /\ UNCHANGED <<exitStatus, h>>
       \/ /\ Exit(1, "sigaction", h)
          /\ UNCHANGED installed
    /\ UNCHANGED <<argsV, port, curRole, sockV, serverShutdown, clientFd,
                   sigchldPending, chldPc, children, outV>>

\* main.c 280-282: the three parsePortArg calls, each returning 1 on failure
ParsePorts ==
    /\ pc = "parse" /\ MainRunnable
    /\ LET r == parsePortArg(argv[curRole], ulongLimbs)
       IN  /\ parseRet' = r.ret
           /\ IF r.ret # 0
              THEN Exit(1, "port", h) /\ UNCHANGED <<port, curRole>>
              ELSE /\ port' = [port EXCEPT ![curRole] = r.port]
                   /\ IF curRole < 3
                      THEN curRole' = curRole + 1 /\ pc' = "parse"
                      ELSE curRole' = 1 /\ pc' = "cs_socket"
                   /\ UNCHANGED <<exitStatus, h>>
    /\ UNCHANGED <<argsV, sockV, serverShutdown, clientFd, sigV, children,
                   markerFile, stdoutLog>>

\* createSocket, main.c 70-74: socket(AF_INET, SOCK_STREAM | SOCK_CLOEXEC, 0)
CsSocket ==
    /\ pc = "cs_socket" /\ MainRunnable
    /\ \/ /\ LowestFree(fdt) # -1
          /\ csFd' = LowestFree(fdt)
          /\ fdt' = [fdt EXCEPT ![LowestFree(fdt)] = Sock(curRole)]
          /\ h' = [h EXCEPT !.sockets = @ \cup {curRole}]
          /\ pc' = "cs_setsockopt"
          /\ UNCHANGED csRet
       \/ /\ csFd' = -1
          /\ csRet' = -1
          /\ pc' = "cs_ret"
          /\ UNCHANGED <<fdt, h>>
    /\ UNCHANGED <<argsV, port, curRole, serverFd, serverShutdown, clientFd, sigV,
                   children, outV, exitStatus>>

\* createSocket, main.c 76-99: setsockopt, bind, listen; each closes fd and
\* returns -1 when it fails, and fails (EBADF) when fd is no longer the socket
CsConfigure ==
    /\ pc \in {"cs_setsockopt", "cs_bind", "cs_listen"} /\ MainRunnable
    /\ \/ /\ IsOpen(fdt, csFd) /\ fdt[csFd].kind = "sock"
          /\ IF pc = "cs_listen"
             THEN /\ fdt' = [fdt EXCEPT ![csFd] = Listen(curRole)]
                  /\ csRet' = csFd
                  /\ pc' = "cs_ret"
             ELSE /\ pc' = IF pc = "cs_setsockopt" THEN "cs_bind" ELSE "cs_listen"
                  /\ UNCHANGED <<fdt, csRet>>
       \/ /\ fdt' = CloseFd(fdt, csFd)
          /\ csRet' = -1
          /\ pc' = "cs_ret"
    /\ UNCHANGED <<argsV, port, curRole, csFd, serverFd, serverShutdown, clientFd,
                   sigV, children, outV, exitStatus, h>>

\* Siblings with close(serverStdoutFd) forgotten
SiblingsFirstOnly(r) == [j \in 1..(IF r > 1 THEN 1 ELSE 0) |-> serverFd[j]]

\* the descriptors main closes when the createSocket call of role r failed
Siblings(r) == [j \in 1..(r - 1) |-> serverFd[j]]

\* main.c 287-303: the global is assigned; on -1 the siblings are closed and
\* main returns 1
CsReturn ==
    /\ pc = "cs_ret" /\ MainRunnable
    /\ serverFd' = [serverFd EXCEPT ![curRole] = csRet]
    /\ IF csRet = -1
       THEN /\ fdt' = CloseAll(fdt, Siblings(curRole))
            /\ Exit(1, "socket", h)
            /\ UNCHANGED curRole
       ELSE /\ IF curRole < 3
               THEN curRole' = curRole + 1 /\ pc' = "cs_socket"
               ELSE curRole' = 1 /\ pc' = "announce"
            /\ UNCHANGED <<fdt, exitStatus, h>>
    /\ UNCHANGED <<argsV, port, csFd, csRet, serverShutdown, clientFd, sigV,
                   children, outV>>

\* every global names the listening endpoint of its own role
AllListening == \A r \in Roles : IsOpen(fdt, serverFd[r]) /\ fdt[serverFd[r]] = Listen(r)

\* main.c 305-309: printf("%d \n", getpid()); fflush(stdout). The caller
\* keeps that line as /data/local/tmp/process.pid
Announce ==
    /\ pc = "announce" /\ MainRunnable
    /\ stdoutLog' = stdoutLog + 1
    /\ markerFile' = TRUE
    /\ h' = [h EXCEPT !.annReady = Append(@, AllListening),
                      !.annAccepts = Append(@, h.accepted)]
    /\ pc' = "loop"
    /\ UNCHANGED <<argsV, port, curRole, sockV, serverShutdown, clientFd, sigV,
                   children, exitStatus, parseRet>>

\* main.c 313: while (!serverShutdown)
LoopCheck ==
    /\ pc = "loop" /\ MainRunnable
    /\ IF serverShutdown = 0
       THEN pc' = "accept" /\ curRole' = 1
       ELSE pc' = "final" /\ UNCHANGED curRole
    /\ h' = [h EXCEPT !.iter = <<>>]
    /\ clientFd' = <<-1, -1, -1>>   \* the locals of an iteration are its own
    /\ UNCHANGED <<argsV, port, sockV, serverShutdown, sigV, children, outV,
                   exitStatus>>

\* AcceptedBefore without the stdin connection when the stderr accept fails
AcceptedBeforeLastOnly(r) == [j \in 1..(IF r > 1 THEN 1 ELSE 0) |-> clientFd[r - j]]

\* descriptors of the connections accepted so far in this iteration, in the
\* order the code closes them when the accept of role r fails (main.c 324, 331-332)
AcceptedBefore(r) == [j \in 1..(r - 1) |-> clientFd[r - j]]

\* AcceptOk with the stderr accept left out: fork follows the stdout accept
AcceptOkSkipStderr ==
    /\ pc = "accept" /\ MainRunnable
    /\ IsListening(fdt, serverFd[curRole])
    /\ LowestFree(fdt) # -1
    /\ h.triples < MaxTriples
    /\ LET fd == LowestFree(fdt)
           ep == fdt[serverFd[curRole]].role
       IN  /\ fdt' = [fdt EXCEPT ![fd] = Conn(ep, h.triples + 1)]
           /\ clientFd' = [clientFd EXCEPT ![curRole] = fd]
           /\ h' = [h EXCEPT !.iter = Append(@, ep),
                             !.accepted = TRUE,
                             !.triples = IF curRole = 2 THEN @ + 1 ELSE @]
    /\ IF curRole < 2
       THEN curRole' = curRole + 1 /\ pc' = "accept"
       ELSE curRole' = 1 /\ pc' = "fork"
    /\ UNCHANGED <<argsV, port, csFd, csRet, serverFd, serverShutdown, sigV,
                   children, outV, exitStatus>>

\* acceptConnection returned a descriptor: a client connected to the endpoint
\* the global names
AcceptOk ==
    /\ pc = "accept" /\ MainRunnable
    /\ IsListening(fdt, serverFd[curRole])
    /\ LowestFree(fdt) # -1
    /\ h.triples < MaxTriples
    /\ LET fd == LowestFree(fdt)
           ep == fdt[serverFd[curRole]].role
       IN  /\ fdt' = [fdt EXCEPT ![fd] = Conn(ep, h.triples + 1)]
           /\ clientFd' = [clientFd EXCEPT ![curRole] = fd]
           /\ h' = [h EXCEPT !.iter = Append(@, ep),
                             !.accepted = TRUE,
                             !.triples = IF curRole = 3 THEN @ + 1 ELSE @]
    /\ IF curRole < 3
       THEN curRole' = curRole + 1 /\ pc' = "accept"
       ELSE curRole' = 1 /\ pc' = "fork"
    /\ UNCHANGED <<argsV, port, csFd, csRet, serverFd, serverShutdown, sigV,
                   children, outV, exitStatus>>

\* AcceptFailed with break in place of continue
AcceptFailedBreak ==
    /\ fdt' = CloseAll(fdt, AcceptedBefore(curRole))
    /\ h' = [h EXCEPT !.accepted = TRUE]
    /\ pc' = "final"
    /\ UNCHANGED <<argsV, port, curRole, csFd, csRet, serverFd, serverShutdown,
                   clientFd, sigV, children, outV, exitStatus>>

\* what main does when acceptConnection returned -1: close what this
\* iteration accepted, continue
AcceptFailed ==
    /\ fdt' = CloseAll(fdt, AcceptedBefore(curRole))
    /\ h' = [h EXCEPT !.accepted = TRUE]
    /\ pc' = "loop"
    /\ UNCHANGED <<argsV, port, curRole, csFd, csRet, serverFd, serverShutdown,
                   clientFd, sigV, children, outV, exitStatus>>

\* AcceptTransient that also closes the endpoint whose accept failed
AcceptTransientCloseEndpoint ==
    /\ pc = "accept" /\ MainRunnable
    /\ IsListening(fdt, serverFd[curRole])
    /\ fdt' = CloseFd(CloseAll(fdt, AcceptedBefore(curRole)), serverFd[curRole])
    /\ h' = [h EXCEPT !.accepted = TRUE]
    /\ pc' = "loop"
    /\ UNCHANGED <<argsV, port, curRole, csFd, csRet, serverFd, serverShutdown,
                   clientFd, sigV, children, outV, exitStatus>>

\* accept() failed although the endpoint is listening (ECONNABORTED, EMFILE, ...)
AcceptTransient ==
    /\ pc = "accept" /\ MainRunnable
    /\ IsListening(fdt, serverFd[curRole])
    /\ AcceptFailed

\* accept() on a descriptor that is not a listening socket (EBADF after the
\* handler closed it, EINTR when the handler interrupted the call)
AcceptBadFd ==
    /\ pc = "accept" /\ MainRunnable
    /\ ~IsListening(fdt, serverFd[curRole])
    /\ AcceptFailed

ClientFds == <<clientFd[3], clientFd[2], clientFd[1]>>

NumChildren == Cardinality({c \in DOMAIN children : children[c].st # "none"})

\* ForkFail that goes on with the loop in place of return 1
ForkFailContinue ==
    /\ pc = "fork" /\ MainRunnable
    /\ fdt' = CloseAll(fdt, ClientFds)
    /\ h' = [h EXCEPT !.forkFails = @ + 1]
    /\ pc' = "loop"
    /\ UNCHANGED <<argsV, port, curRole, csFd, csRet, serverFd, serverShutdown,
                   clientFd, sigV, children, outV, exitStatus>>

\* main.c 340-350: fork() returned -1
ForkFail ==
    /\ pc = "fork" /\ MainRunnable
    /\ fdt' = CloseAll(fdt, ClientFds)
    /\ Exit(1, "fork", [h EXCEPT !.forkFails = @ + 1])
    /\ UNCHANGED <<argsV, port, curRole, csFd, csRet, serverFd, serverShutdown,
                   clientFd, sigV, children, outV>>

\* main.c 340: fork() created a child, which starts with a copy of the
\* server's descriptor table, globals and locals
ForkOk ==
    /\ pc = "fork" /\ MainRunnable
    /\ NumChildren < MaxTriples
    /\ children' = [children EXCEPT ![NumChildren + 1] =
                       [st |-> "forked", fdt |-> fdt, atExec |-> NoChild.atExec,
                        triple |-> h.triples, status |-> -1, sfd |-> serverFd, cfd |-> clientFd]]
    /\ pc' = "parent_close"
    /\ UNCHANGED <<argsV, port, curRole, sockV, serverShutdown, clientFd, sigV,
                   outV, exitStatus, h>>

\* ParentClose after a waitpid on the child just created
ParentCloseAfterWait ==
    /\ pc = "parent_close" /\ MainRunnable
    /\ children[NumChildren].st \in {"zombie", "reaped"}
    /\ fdt' = CloseAll(fdt, <<clientFd[1], clientFd[2], clientFd[3]>>)
    /\ pc' = "loop"
    /\ UNCHANGED <<argsV, port, curRole, csFd, csRet, serverFd, serverShutdown,
                   clientFd, sigV, children, outV, exitStatus, h>>

\* ParentClose that also runs the closes of the child branch (main.c 355-357)
ParentCloseServerFds ==
    /\ pc = "parent_close" /\ MainRunnable
    /\ fdt' = CloseAll(CloseAll(fdt, serverFd), <<clientFd[1], clientFd[2], clientFd[3]>>)
    /\ pc' = "loop"
    /\ UNCHANGED <<argsV, port, curRole, csFd, csRet, serverFd, serverShutdown,
                   clientFd, sigV, children, outV, exitStatus, h>>

\* main.c 392-398: the parent closes its copies
ParentClose ==
    /\ pc = "parent_close" /\ MainRunnable
    /\ fdt' = CloseAll(fdt, <<clientFd[1], clientFd[2], clientFd[3]>>)
    /\ pc' = "loop"
    /\ UNCHANGED <<argsV, port, curRole, csFd, csRet, serverFd, serverShutdown,
                   clientFd, sigV, children, outV, exitStatus, h>>

----------------------------------------------------------------------------
(* shutdownServerSockets, from the handler and from the end of main *)

ServerFds == <<serverFd[1], serverFd[2], serverFd[3]>>

MarkerFileRes == [kind |-> "file", role |-> 0, id |-> 0]

\* the open files and the marker file an invocation starting now releases
Released ==
    {x.file : x \in OpenAmong(fdt, ServerFds)}
        \cup (IF markerFile THEN {MarkerFileRes} ELSE {})

HistShutdown(hh) ==
    [hh EXCEPT !.shutCalls = @ + 1,
               !.laterReleased = IF hh.shutCalls >= 1 THEN @ \cup Released ELSE @,
               !.stdClosed = @ \/ \E x \in Released : x.kind = "std"]

\* shutdownServerSockets that removes the file and leaves the sockets alone
shutdownServerSocketsFileOnly ==
    /\ fdt' = fdt
    /\ markerFile' = FALSE

\* shutdownServerSockets that closes the stdin endpoint only
shutdownServerSocketsStdinOnly ==
    /\ fdt' = CloseFd(fdt, serverFd[1])
    /\ markerFile' = FALSE

\* main.c 158-168: shutdown and close of the three globals, remove of the file
shutdownServerSockets ==
    /\ fdt' = CloseAll(fdt, ServerFds)
    /\ markerFile' = FALSE

\* main.c 401-404
FinalShutdown ==
    /\ pc = "final" /\ MainRunnable
    /\ shutdownServerSockets
    /\ Exit(0, "shutdown", HistShutdown(h))
    /\ UNCHANGED <<argsV, port, curRole, csFd, csRet, serverFd, serverShutdown,
                   clientFd, sigV, children, stdoutLog, parseRet>>

----------------------------------------------------------------------------
(* Signals *)

TermSignals == {"SIGTERM", "SIGINT"}

\* positions of the main flow after the third createSocket call returned
ServingPcs == {"announce", "loop", "accept", "fork", "parent_close", "final"}

\* the phase of the main flow: before the endpoints are all created, in the
\* accept calls, between the third accept and fork, elsewhere in serving
Phase ==
    IF pc \notin ServingPcs THEN "startup"
    ELSE IF pc \in {"accept", "fork"} THEN pc
    ELSE "serving"

ServingPhases == {"serving", "accept", "fork"}

\* handleSignalShutdown: runs with every signal blocked (sigfillset), at any
\* point of the main flow or of the SIGCHLD handler
HandleSignalShutdown ==
    /\ ServerAlive
    /\ h.sigs < MaxSignals
    /\ \E sig \in TermSignals : sig \in installed
    /\ serverShutdown' = 1
    /\ shutdownServerSockets
    /\ h' = [HistShutdown(h) EXCEPT !.sigs = @ + 1, !.sigAt = @ \cup {Phase}]
    /\ UNCHANGED <<pc, argsV, port, curRole, csFd, csRet, serverFd, clientFd, sigV,
                   children, stdoutLog, exitStatus, parseRet>>

\* a termination signal before its handler is installed ends the process
SignalKill ==
    /\ ServerAlive
    /\ h.sigs < MaxSignals
    /\ \E sig \in TermSignals : sig \notin installed
    /\ pc' = "killed"
    /\ h' = [h EXCEPT !.sigs = @ + 1, !.cause = "signal"]
    /\ UNCHANGED <<argsV, port, curRole, sockV, serverShutdown, clientFd, sigV,
                   children, outV, exitStatus>>

\* the kernel delivers the pending SIGCHLD: handleSignalChildEnd starts, with
\* SIGCHLD blocked until it returns
ChldEnter ==
    /\ ServerAlive
    /\ "SIGCHLD" \in installed
    /\ sigchldPending
    /\ chldPc = "idle"
    /\ sigchldPending' = FALSE
    /\ chldPc' = "waitpid"
    /\ UNCHANGED <<pc, argsV, port, curRole, sockV, serverShutdown, clientFd,
                   installed, children, outV, exitStatus, h>>

Zombies == {c \in DOMAIN children : children[c].st = "zombie"}

\* handleSignalChildEnd with one waitpid call per signal in place of the loop
ChldWaitpidOnce ==
    /\ ServerAlive
    /\ chldPc = "waitpid"
    /\ IF Zombies # {}
       THEN \E c \in Zombies : children' = [children EXCEPT ![c].st = "reaped"]
       ELSE UNCHANGED children
    /\ chldPc' = "idle"
    /\ UNCHANGED <<pc, argsV, port, curRole, sockV, serverShutdown, clientFd,
                   installed, sigchldPending, outV, exitStatus, h>>

\* main.c 221: while (waitpid(-1, &status, WNOHANG) > 0)
ChldWaitpid ==
    /\ ServerAlive
    /\ chldPc = "waitpid"
    /\ IF Zombies # {}
       THEN /\ \E c \in Zombies : children' = [children EXCEPT ![c].st = "reaped"]
            /\ UNCHANGED chldPc
       ELSE /\ chldPc' = "idle"
            /\ UNCHANGED children
    /\ UNCHANGED <<pc, argsV, port, curRole, sockV, serverShutdown, clientFd,
                   installed, sigchldPending, outV, exitStatus, h>>

----------------------------------------------------------------------------
(* The child branch, main.c 353-389 *)

IsCloexec(file) == file.kind \in {"sock", "listen"}

\* ChildWiring without the closes of the three originals after the dup2 calls
ChildWiringKeepOriginals(c) ==
    LET ch == children[c]
        t0 == CloseAll(ch.fdt, ch.sfd)
        d1 == Dup2(t0, ch.cfd[1], STDIN_FILENO)
        d2 == Dup2(d1.t, ch.cfd[2], STDOUT_FILENO)
        d3 == Dup2(d2.t, ch.cfd[3], STDERR_FILENO)
    IN  IF ~d1.ok THEN [failed |-> 1, t |-> d1.t]
        ELSE IF ~d2.ok THEN [failed |-> 2, t |-> d2.t]
        ELSE [failed |-> IF d3.ok THEN 0 ELSE 3, t |-> d3.t]

\* the descriptor table of the child after the closes and the three dup2,
\* and the first dup2 that failed (0: none)
ChildWiring(c) ==
    LET ch == children[c]
        t0 == CloseAll(ch.fdt, ch.sfd)
        d1 == Dup2(t0, ch.cfd[1], STDIN_FILENO)
        d2 == Dup2(d1.t, ch.cfd[2], STDOUT_FILENO)
        d3 == Dup2(d2.t, ch.cfd[3], STDERR_FILENO)
    IN  IF ~d1.ok THEN [failed |-> 1, t |-> d1.t]
        ELSE IF ~d2.ok THEN [failed |-> 2, t |-> d2.t]
        ELSE IF ~d3.ok THEN [failed |-> 3, t |-> d3.t]
        ELSE [failed |-> 0, t |-> CloseAll(d3.t, ch.cfd)]

ChildDies(c, status) ==
    /\ children' = [children EXCEPT ![c] = [NoChild EXCEPT !.st = "zombie",
                                                           !.triple = children[c].triple,
                                                           !.status = status]]
    /\ sigchldPending' = TRUE
    /\ h' = [h EXCEPT !.coalesced = @ \/ sigchldPending \/ chldPc # "idle"]

\* ChildBranch whose failing child leaves through shutdownServerSockets,
\* which removes the file of the server
ChildBranchFailCleansUp(c) ==
    /\ ServerAlive
    /\ children[c].st = "forked"
    /\ LET w == ChildWiring(c)
       IN  \/ /\ w.failed = 0
              /\ children' = [children EXCEPT ![c] =
                    [NoChild EXCEPT !.st = "shell",
                                    !.triple = children[c].triple,
                                    !.atExec = w.t,
                                    !.fdt = [fd \in Fds |-> IF IsCloexec(w.t[fd])
                                                            THEN Closed ELSE w.t[fd]]]]
              /\ UNCHANGED <<sigchldPending, h, outV>>
           \/ /\ ChildDies(c, 1)
              /\ markerFile' = FALSE
              /\ UNCHANGED <<stdoutLog, parseRet>>
    /\ UNCHANGED <<pc, argsV, port, curRole, sockV, serverShutdown, clientFd,
                   installed, chldPc, exitStatus>>

\* the child runs its branch up to execl: it becomes the shell, or a dup2 or
\* the execl fails and it exits with status 1
ChildBranch(c) ==
    /\ ServerAlive
    /\ children[c].st = "forked"
    /\ LET w == ChildWiring(c)
       IN  \/ /\ w.failed = 0
              /\ children' = [children EXCEPT ![c] =
                    [NoChild EXCEPT !.st = "shell",
                                    !.triple = children[c].triple,
                                    !.atExec = w.t,
                                    !.fdt = [fd \in Fds |-> IF IsCloexec(w.t[fd])
                                                            THEN Closed ELSE w.t[fd]]]]
              /\ UNCHANGED <<sigchldPending, h>>
           \/ ChildDies(c, 1)
    /\ UNCHANGED <<pc, argsV, port, curRole, sockV, serverShutdown, clientFd,
                   installed, chldPc, outV, exitStatus>>

\* the shell of a child ends
ChildExit(c) ==
    /\ ServerAlive
    /\ children[c].st = "shell"
    /\ ChildDies(c, 0)
    /\ UNCHANGED <<pc, argsV, port, curRole, sockV, serverShutdown, clientFd,
                   installed, chldPc, outV, exitStatus>>

----------------------------------------------------------------------------
(* The server *)

\* the steps of main up to the third createSocket call
StartupStep ==
    \/ CheckArgc
    \/ SetupSignalHandlerChildEnd
    \/ SetupSignalHandlerShutdown
    \/ ParsePorts
    \/ CsSocket
    \/ CsConfigure
    \/ CsReturn

\* the steps of main from the pid line on that wait for nobody: every step
\* but an accept on an endpoint that is listening
ServeStep ==
    \/ Announce
    \/ LoopCheck
    \/ AcceptBadFd
    \/ ForkFail
    \/ ForkOk
    \/ ParentClose
    \/ FinalShutdown

Next ==
    \/ StartupStep
    \/ ServeStep
    \/ AcceptOk
    \/ AcceptTransient
    \/ HandleSignalShutdown
    \/ SignalKill
    \/ ChldEnter
    \/ ChldWaitpid
    \/ \E c \in DOMAIN children : ChildBranch(c)
    \/ \E c \in DOMAIN children : ChildExit(c)

Spec == Init /\ [][Next]_vars

\* Once serving, the main flow keeps running unless it waits in accept on a
\* listening endpoint; the kernel delivers a pending SIGCHLD and the handler
\* runs on. Clients, children's ends and termination signals come when they
\* come.
FairSpec ==
    /\ Spec
    /\ WF_vars(ServeStep)
    /\ WF_vars(ChldEnter)
    /\ WF_vars(ChldWaitpid)

\* The server started with any of the standard descriptors closed, so that
\* socket() and accept() hand out the numbers 0, 1 and 2; one good command line
GoodArgs == [argc |-> 5,
             argv |-> << <<"8","0","8","0">>, <<"8","0","8","1">>, <<"8","0","8","2">> >>]

InitAnyFds ==
    /\ pc = "start"
    /\ argc = GoodArgs.argc /\ argv = GoodArgs.argv
    /\ ulongLimbs = 4
    /\ \E open \in SUBSET StdFds : fdt = StartFdt(open)
    /\ InitCommon

SpecAnyFds == InitAnyFds /\ [][Next]_vars

----------------------------------------------------------------------------
(* parsePortArg alone, over every short text of ParseAlphabet and some     *)
(* longer ones                                                              *)

ParseAlphabet == {"0", "1", "6", "9", "-", "+", " ", "a"}

TextsUpTo(n) == UNION {[1..k -> ParseAlphabet] : k \in 0..n}

LongTexts ==
    { <<"8","0","8","0">>, <<"7","0","0","0","0">>, <<"6","5","5","3","5">>,
      <<"6","5","5","3","6">>, <<"0","0","0","0","8","0">>,
      <<"4","2","9","4","9","6","7","2","9","5">>,
      <<"4","2","9","4","9","6","7","2","9","6">>,
      <<"-","4","2","9","4","9","6","7","2","9","5">>,
      <<"1","8","4","4","6","7","4","4","0","7","3","7","0","9","5","5","1","6","1","5">>,
      <<"1","8","4","4","6","7","4","4","0","7","3","7","0","9","5","5","1","6","1","6">>,
      <<"-","1","8","4","4","6","7","4","4","0","7","3","7","0","9","5","5","1","6","1","5">> }

ParseInputs == TextsUpTo(MaxArgLen) \cup LongTexts

InitParse ==
    /\ pc = "parse_only"
    /\ argc = 2
    /\ \E s \in ParseInputs : argv = <<s>>
    /\ ulongLimbs \in {2, 4}
    /\ fdt = StartFdt(StdFds)
    /\ InitCommon

\* one call parsePortArg(argv[1], &port[1])
ParseOnly ==
    /\ pc = "parse_only"
    /\ LET r == parsePortArg(argv[1], ulongLimbs)
       IN  /\ parseRet' = r.ret
           /\ port' = IF r.ret = 0 THEN [port EXCEPT ![1] = r.port] ELSE port
    /\ pc' = "parsed"
    /\ UNCHANGED <<argsV, curRole, sockV, serverShutdown, clientFd, sigV, children,
                   markerFile, stdoutLog, exitStatus, h>>

SpecParse == InitParse /\ [][ParseOnly]_vars

----------------------------------------------------------------------------
(* Properties *)

\* a termination signal arrived after the third createSocket call returned
SigServing == h.sigAt \cap ServingPhases # {}

NoListeningOpen == \A fd \in Fds : fdt[fd].kind \notin {"sock", "listen"}

NoConnOpen == \A fd \in Fds : fdt[fd].kind # "conn"

\* C1 as stated: a server that handled a termination signal after its three
\* endpoints were listening exits with status 0, the marker file gone and no
\* listening descriptor open
C1_AsStated ==
    (pc = "exited" /\ SigServing)
        => exitStatus = 0 /\ ~markerFile /\ NoListeningOpen

\* C1 amended: after such a signal the server always exits, with the marker
\* file gone and no listening descriptor open; its status is 0, except that it
\* is 1 when the signal arrived between the third accept and a fork that failed
C1_ShutdownExits ==
    /\ SigServing ~> (pc = "exited")
    /\ []((pc = "exited" /\ SigServing)
            => /\ exitStatus = (IF h.forkFails > 0 THEN 1 ELSE 0)
               /\ h.forkFails > 0 => "fork" \in h.sigAt
               /\ ~markerFile
               /\ NoListeningOpen)

\* a signal arrived while the main flow was in accept, and the server exited 0
C1_Witness ==
    pc = "exited" /\ "accept" \in h.sigAt /\ exitStatus = 0 /\ h.accepted

\* a triple is complete and its fork has not run yet
ForkDue == IF pc = "fork" THEN 1 ELSE 0

\* C2 as stated: as many children were created as triples were accepted
C2_AsStated == NumChildren = h.triples - ForkDue

\* C2 amended: the children created are the triples accepted less the forks
\* that failed (at most one, the server exits on it); a child is created only
\* by the fork of an iteration that accepted stdin, stdout, stderr in this
\* order, whose three connections are open in the parent
C2_ChildPerTriple ==
    /\ [](NumChildren + h.forkFails = h.triples - ForkDue /\ h.forkFails <= 1)
    /\ [][NumChildren' # NumChildren
            => /\ NumChildren' = NumChildren + 1
               /\ pc = "fork"
               /\ h.iter = <<1, 2, 3>>
               /\ \A r \in Roles : IsOpen(fdt, clientFd[r])
                                     /\ fdt[clientFd[r]] = Conn(r, h.triples)]_vars

\* two triples gave two children, the first of which has already been reaped
C2_Witness ==
    h.triples = 2 /\ NumChildren = 2 /\ children[1].st = "reaped" /\ ServerAlive

\* C3: a child that has ended and is not reaped yet is reaped later, unless
\* the server ends first
C3_Reaped ==
    \A c \in 1..MaxTriples :
        (children[c].st = "zombie") ~> (children[c].st = "reaped" \/ ~ServerAlive)

\* two children are reaped, one of which ended while a SIGCHLD was pending
\* or the handler was running
C3_Witness ==
    /\ h.coalesced
    /\ ServerAlive
    /\ Cardinality({c \in 1..MaxTriples : children[c].st = "reaped"}) >= 2

\* the value of a text of digits, capped at LimbBase
RECURSIVE CappedValue(_, _, _)
CappedValue(s, i, acc) ==
    IF i > Len(s) THEN acc
    ELSE LET v == acc * 10 + DigitVal(s[i])
         IN  CappedValue(s, i + 1, IF v > LimbBase THEN LimbBase ELSE v)

\* a base-10 integer in [0, 65535] and nothing else
IsPlainPort(s) ==
    /\ Len(s) >= 1
    /\ \A i \in 1..Len(s) : IsDigit(s[i])
    /\ CappedValue(s, 1, 0) <= UINT16_MAX

\* C4 as stated: parsePortArg returns 0 exactly on the base-10 integers in
\* [0, 65535] without trailing characters, and stores the value; the empty
\* text fails
C4_AsStated ==
    pc = "parsed"
        => /\ (parseRet = 0) <=> IsPlainPort(argv[1])
           /\ parseRet = 0 => port[1] = CappedValue(argv[1], 1, 0)
           /\ argv[1] = <<>> => parseRet # 0

\* C5 as stated: an invocation of shutdownServerSockets after the first
\* releases nothing
C5_AsStated == h.laterReleased = {}

\* C6: when a createSocket call failed, the server has exited with status 1
\* and holds no socket, listening or not
C6_AllOrNothing ==
    (pc = "exited" /\ h.cause = "socket") => exitStatus = 1 /\ NoListeningOpen

\* the third createSocket call failed after its socket() call succeeded
C6_Witness ==
    pc = "exited" /\ h.cause = "socket" /\ h.sockets = {1, 2, 3} /\ curRole = 3

ArgError ==
    \/ argc # 5
    \/ \E r \in Roles : parsePortArg(argv[r], ulongLimbs).ret # 0

\* C7: with a wrong argument count or a port text that does not parse, no
\* socket is ever created and the exit status is not 0
C7_ArgErrorsFatal ==
    ArgError
        => /\ h.sockets = {}
           /\ NoListeningOpen
           /\ pc \in {"start", "setup_chld", "setup_term", "setup_int", "parse",
                      "exited", "killed"}
           /\ pc = "exited" => exitStatus # 0

\* the third port text is the bad one, and the server has exited on it
C7_Witness ==
    /\ pc = "exited" /\ h.cause = "port"
    /\ parsePortArg(argv[1], ulongLimbs).ret = 0
    /\ parsePortArg(argv[2], ulongLimbs).ret = 0

\* C8 as stated: the pid line is written at most once, with all three
\* endpoints listening, before any accept
C8_AsStated ==
    /\ stdoutLog <= 1
    /\ \A i \in DOMAIN h.annReady : h.annReady[i] /\ ~h.annAccepts[i]

\* C9: a server that exits does so with 1 after a failed setup or a failed
\* fork, and with 0 only after the termination handler has run
C9_ExitStatus ==
    pc = "exited"
        => /\ exitStatus \in {0, 1}
           /\ (ArgError \/ h.cause \in {"sigaction", "socket"} \/ h.forkFails > 0)
                 => exitStatus = 1
           /\ exitStatus = 0 => serverShutdown = 1 /\ h.sigAt # {}

\* the server served a triple and then exited with status 0
C9_Witness ==
    pc = "exited" /\ exitStatus = 0 /\ h.triples >= 1 /\ h.cause = "shutdown"

\* C10 as stated: after a failed fork the connections are closed and the
\* server is back in the accept loop with its endpoints listening
C10_AsStated ==
    h.forkFails > 0
        => NoConnOpen /\ pc \in {"loop", "accept"} /\ AllListening

\* C10 amended: after a failed fork the three connections are closed and the
\* server has exited with status 1; the endpoints are still listening unless
\* the termination handler closed them
C10_ForkFailureExits ==
    h.forkFails > 0
        => /\ NoConnOpen
           /\ pc = "exited" /\ exitStatus = 1
           /\ serverShutdown = 0 => AllListening

\* the fork of the second triple failed, after the first gave a child
C10_Witness ==
    h.forkFails > 0 /\ NumChildren = 1 /\ h.triples = 2 /\ pc = "exited"

\* the descriptors of the parent that hold an accepted connection
ConnFds == {fd \in Fds : fdt[fd].kind = "conn"}

\* C11: the parent holds no accepted connection when an iteration of the
\* accept loop starts, nor after the loop and at exit; inside an iteration it
\* holds the connections of this iteration only, on the descriptors its
\* locals name
C11_NoStaleConnections ==
    /\ pc \in {"loop", "final", "exited"} => ConnFds = {}
    /\ pc = "accept"
          => /\ ConnFds = {clientFd[r] : r \in 1..(curRole - 1)}
             /\ \A r \in 1..(curRole - 1) : fdt[clientFd[r]] = Conn(r, h.triples + 1)
    /\ pc \in {"fork", "parent_close"}
          => /\ ConnFds = {clientFd[r] : r \in Roles}
             /\ \A r \in Roles : fdt[clientFd[r]] = Conn(r, h.triples)

\* the stderr accept failed after stdin and stdout were accepted, a child of
\* an earlier iteration is running, and the loop is at its start again
C11_Witness ==
    /\ pc = "loop" /\ h.iter = <<1, 2>> /\ h.triples = 1
    /\ children[1].st = "shell"

\* C12: a child that has called execl has the stdin, stdout and stderr
\* connections of its own triple on descriptors 0, 1 and 2, no listening
\* endpoint and no connection on any other descriptor, also when the
\* listening endpoints were given the numbers 0, 1 or 2; the shell it became
\* holds the same
C12_ChildWiring ==
    \A c \in DOMAIN children :
        children[c].st = "shell"
            => \A t \in {children[c].atExec, children[c].fdt} :
                  /\ t[STDIN_FILENO] = Conn(1, children[c].triple)
                  /\ t[STDOUT_FILENO] = Conn(2, children[c].triple)
                  /\ t[STDERR_FILENO] = Conn(3, children[c].triple)
                  /\ \A fd \in Fds \ StdFds : t[fd].kind \notin {"sock", "listen", "conn"}

\* the server started with descriptors 0, 1 and 2 closed: its endpoints
\* listen on them, and its second child is a shell
C12_Witness ==
    /\ \A r \in Roles : serverFd[r] = r - 1 /\ fdt[r - 1] = Listen(r)
    /\ children[2].st = "shell" /\ children[2].triple = 2

\* a step of handleSignalShutdown
TermHandlerStep == h'.sigs = h.sigs + 1 /\ pc' = pc

\* C13 as stated: once a handler is installed the main flow writes nothing a
\* handler reads but the shutdown flag, so the descriptor globals keep their
\* values, and the termination handler does the same at every point: it
\* closes the listening sockets of the server and no other descriptor
C13_AsStated ==
    [][/\ installed # {} => serverFd' = serverFd
       /\ TermHandlerStep
            => \A fd \in Fds :
                  fdt'[fd] = IF fdt[fd].kind \in {"sock", "listen"} THEN Closed
                             ELSE fdt[fd]]_vars

\* C14: an accept that fails while the shutdown flag is not set leaves the
\* server running at the loop test, the flag unset and the three endpoints
\* listening on the same descriptors; from the loop test with the flag unset
\* the main flow goes to the accept of the stdin role
C14_TransientAcceptNonFatal ==
    [][/\ (pc = "accept" /\ pc' = "loop" /\ serverShutdown = 0)
            => /\ ServerAlive' /\ serverShutdown' = 0
               /\ serverFd' = serverFd
               /\ AllListening /\ AllListening'
               /\ \A r \in Roles : fdt'[serverFd[r]] = fdt[serverFd[r]]
       /\ (pc = "loop" /\ pc' # "loop" /\ serverShutdown = 0)
            => pc' = "accept" /\ curRole' = 1]_vars

\* the stdout accept of the second triple failed with the flag unset, and the
\* server is at the loop test with its endpoints listening
C14_Witness ==
    /\ pc = "loop" /\ h.iter = <<1>> /\ serverShutdown = 0
    /\ NumChildren = 1 /\ AllListening

\* the descriptors of the server that hold a socket of its own, listening or not
SocketFds == {fd \in Fds : fdt[fd].kind \in {"sock", "listen"}}

\* C15: socket() gives a role a socket once; from the pid line on no socket
\* is created and the globals keep their values; whenever the main flow is in
\* the accept loop with the shutdown flag unset, the three globals name the
\* three listening endpoints, which are the only sockets of the server
C15_EndpointsLive ==
    /\ []((pc \in {"loop", "accept", "fork", "parent_close"} /\ serverShutdown = 0)
            => /\ AllListening
               /\ SocketFds = {serverFd[r] : r \in Roles}
               /\ h.sockets = Roles)
    /\ [][/\ \A fd \in Fds, r \in Roles :
               ((fdt'[fd] = Sock(r) /\ fdt[fd] # Sock(r)) => r \notin h.sockets)
          /\ (pc \in ServingPcs)
               => (/\ serverFd' = serverFd
                   /\ \A fd \in Fds :
                         (fdt'[fd].kind \in {"sock", "listen"} => fdt'[fd] = fdt[fd]))]_vars

\* two children were spawned, the first has ended and is reaped, and the
\* server waits for the next triple with its endpoints listening
C15_Witness ==
    /\ pc = "accept" /\ serverShutdown = 0 /\ AllListening
    /\ NumChildren = 2 /\ children[1].st = "reaped"

\* the children that have not ended
LiveChildren == {c \in DOMAIN children : children[c].st \in {"forked", "shell"}}

\* C16: after a fork the parent can always take its next step, the closes
\* of its three copies, whatever the children do, and that step leads to the
\* loop test and changes no child; the children alive at the same time have
\* distinct triples, and each shell holds the connections of its own
C16_ParentNeverWaits ==
    /\ []((pc = "parent_close" /\ chldPc = "idle") => ENABLED ParentClose)
    /\ [](\A c \in LiveChildren :
            /\ \A d \in LiveChildren \ {c} : children[d].triple # children[c].triple
            /\ children[c].st = "shell"
                 => \A fd \in StdFds : children[c].fdt[fd].id = children[c].triple)
    /\ [][(pc = "parent_close" /\ pc' # pc)
            => pc' = "loop" /\ children' = children]_vars

\* as many shells as the bound allows are alive at the same time, and the
\* parent is past the closes of the last one
C16_Witness ==
    /\ \A c \in 1..MaxTriples : children[c].st = "shell" /\ children[c].triple = c
    /\ pc \in {"loop", "accept"}

\* child c fails in its branch and exits
ChildFailStep(c) == children[c].st = "forked" /\ children'[c].st = "zombie"

\* C17: a child whose dup2 or execl fails exits with status 1; that step
\* changes nothing of the parent (position, shutdown flag, globals,
\* descriptors, file, output, exit status) and no other child; the failed
\* child is reaped later, unless the server ends first
C17_ChildFailureIsolated ==
    /\ [][\A c \in DOMAIN children :
            ChildFailStep(c)
                => /\ children'[c].status = 1
                   /\ \A d \in DOMAIN children \ {c} : children'[d] = children[d]
                   /\ UNCHANGED <<pc, curRole, serverShutdown, serverFd, fdt, clientFd,
                                  markerFile, stdoutLog, exitStatus, installed>>]_vars
    /\ \A c \in 1..MaxTriples :
          (children[c].st = "zombie" /\ children[c].status = 1)
              ~> (children[c].st = "reaped" \/ ~ServerAlive)

\* the first child failed and is reaped, the second is a shell, and the
\* server waits for the next triple with its endpoints listening
C17_Witness ==
    /\ children[1].st = "reaped" /\ children[1].status = 1
    /\ children[2].st = "shell"
    /\ pc = "accept" /\ serverShutdown = 0 /\ AllListening /\ markerFile

\* C18 as stated: once the shutdown flag is set no child is created
C18_AsStated == [][serverShutdown = 1 => NumChildren' = NumChildren]_vars

\* C18 amended: once the shutdown flag is set no accept succeeds, no triple
\* is completed and the main flow does not come to a fork; the one child that
\* can still be created is that of a triple whose third accept had returned
\* when the signal arrived, by the fork the main flow was about to call
C18_NoNewTriple ==
    [][serverShutdown = 1
        => /\ h.triples' = h.triples
           /\ ConnFds' \subseteq ConnFds
           /\ pc # "fork" => pc' # "fork"
           /\ NumChildren' # NumChildren
                => pc = "fork" /\ "fork" \in h.sigAt /\ NumChildren' = NumChildren + 1]_vars

\* a signal arrived between the third accept of the second triple and its
\* fork, and the fork has created the second child
C18_Witness ==
    /\ pc = "parent_close" /\ serverShutdown = 1 /\ h.sigAt = {"fork"}
    /\ NumChildren = 2 /\ h.triples = 2

\* a step that runs shutdownServerSockets, from the handler or from main
ShutdownStep == h'.shutCalls = h.shutCalls + 1

\* C19 as stated: whatever an invocation of shutdownServerSockets closes is a
\* socket this server created, at every point at which it can run; it never
\* closes a descriptor the process was started with
C19_AsStated ==
    [][ShutdownStep
        => \A fd \in Fds :
              fdt'[fd] # fdt[fd] => fdt[fd].kind \in {"sock", "listen"}]_vars

====
